---- MODULE Spec2Model ----
(***************************************************************************)
(* Model of the edit refinement loop of gpt_engineer/core/default/steps.py *)
(* (incorrect_edit, improve) and of the edit application it ends with.     *)
(*                                                                         *)
(* Text is a sequence of one-character strings, so that Python's           *)
(* substring test (`in`) and first-occurrence replacement are computed     *)
(* character by character.  A model response (chat) is the sequence of its *)
(* edit sections; a section is either a well-formed edit or malformed.     *)
(***************************************************************************)
EXTENDS Integers, Sequences, FiniteSets, TLC

VARIABLES
    code,              \* the Code dict handed to improve / mutated in place
    messages,          \* the conversation (list of messages)
    chat,              \* content of the last model response
    problems,          \* result of the last incorrect_edit call
    edit_refinements,  \* the loop counter of improve
    pc,                \* position of the running function
    raised,            \* exception that left the function ("none" if none)
    code0,             \* history: contents of code at entry
    calls,             \* history: number of ai.next calls made
    handed,            \* history: what was passed to overwrite_code_with_edits
    files,             \* the (path, content) pairs parse_chat returned
    keys,              \* the keys of the Code dict in insertion order
    workspace,         \* dbs.workspace: file name -> content
    memory,            \* dbs.memory: file name -> content
    edits_out,         \* what the edit-block parser returned
    agent,             \* the CliAgent call in progress
    run,               \* the run of main: consent and the learnings sent
    env                \* the execution environment and the user at the prompt

\* the state outside improve and the validator / applier
ext == <<files, keys, workspace, memory, edits_out, agent, run, env>>

vars == <<code, messages, chat, problems, edit_refinements, pc, raised,
          code0, calls, handed, files, keys, workspace, memory, edits_out, agent,
          run, env>>

----------------------------------------------------------------------------
(* Bounds of the model *)

\* longest file content enumerated for the validator / applier inputs
MaxLen == 2
\* most edit sections in one batch given to the validator / applier
MaxBatch == 3
\* most edit sections in one model response of the refinement loop
MaxResponse == 2

(* Program constant; its module (core/default/constants.py) is imported at *)
(* steps.py:15.                                                            *)
MAX_EDIT_REFINEMENT_STEPS == 2

----------------------------------------------------------------------------
(* Text *)

Chars == {"A", "B"}

Strs(n) == UNION {[1..k -> Chars] : k \in 0..n}

SeqsUpTo(S, n) == UNION {[1..k -> S] : k \in 0..n}

\* Python `b in c` on str: b occurs in c as a contiguous run
IsSubstring(b, c) ==
    \E i \in 1..(Len(c) - Len(b) + 1) : SubSeq(c, i, i + Len(b) - 1) = b

\* Mutant: every occurrence is replaced (str.replace without a count).
RECURSIVE ReplaceAll(_, _, _)
ReplaceAll(c, b, a) ==
    IF b = <<>> THEN a \o c
    ELSE IF Len(b) <= Len(c) /\ SubSeq(c, 1, Len(b)) = b
    THEN a \o ReplaceAll(SubSeq(c, Len(b) + 1, Len(c)), b, a)
    ELSE IF c = <<>> THEN c
    ELSE <<Head(c)>> \o ReplaceAll(Tail(c), b, a)

\* Replace the first (leftmost) occurrence of b in c by a; c if there is none.
RECURSIVE ReplaceFirst(_, _, _)
ReplaceFirst(c, b, a) ==
    IF Len(b) <= Len(c) /\ SubSeq(c, 1, Len(b)) = b
    THEN a \o SubSeq(c, Len(b) + 1, Len(c))
    ELSE IF c = <<>> THEN c
    ELSE <<Head(c)>> \o ReplaceFirst(Tail(c), b, a)

----------------------------------------------------------------------------
(* Edits, model responses and their parsing *)

Edit(f, b, a) == [filename |-> f, before |-> b, after |-> a]

EditSection(f, b, a) ==
    [kind |-> "edit", filename |-> f, before |-> b, after |-> a]

MalformedSection ==
    [kind |-> "malformed", filename |-> "", before |-> <<>>, after |-> <<>>]

\* parse_edits: the edits of the sections in order, or ValueError when a
\* section is malformed (steps.py:129-131 catches ValueError from it).
parse_edits(text) ==
    IF \E i \in 1..Len(text) : text[i].kind = "malformed"
    THEN [ok |-> FALSE, edits |-> <<>>]
    ELSE [ok |-> TRUE,
          edits |-> [i \in 1..Len(text) |->
                       Edit(text[i].filename, text[i].before, text[i].after)]]

----------------------------------------------------------------------------
(* incorrect_edit: steps.py:127-148 *)

InitialProblem == [kind |-> "initial", filename |-> "", before |-> <<>>]

ParseProblem == [kind |-> "ValueError", filename |-> "", before |-> <<>>]

FileNotFound(f) == [kind |-> "FileNotFound", filename |-> f, before |-> <<>>]

SnippetNotFound(b) == [kind |-> "SnippetNotFound", filename |-> "", before |-> b]

\* Mutant: the loop over the edits stops at the first problem.
RECURSIVE check_edits_first_only(_, _)
check_edits_first_only(c, edits) ==
    IF edits = <<>> THEN <<>>
    ELSE LET edit == Head(edits) IN
         IF edit.filename \notin DOMAIN c
         THEN <<FileNotFound(edit.filename)>>
         ELSE IF ~IsSubstring(edit.before, c[edit.filename])
         THEN <<SnippetNotFound(edit.before)>>
         ELSE check_edits_first_only(c, Tail(edits))

\* the for loop of incorrect_edit (lines 136-148)
RECURSIVE check_edits(_, _)
check_edits(c, edits) ==
    IF edits = <<>> THEN <<>>
    ELSE LET edit == Head(edits) IN
         (IF edit.filename \notin DOMAIN c
          THEN <<FileNotFound(edit.filename)>>
          ELSE IF ~IsSubstring(edit.before, c[edit.filename])
          THEN <<SnippetNotFound(edit.before)>>
          ELSE <<>>)
         \o check_edits(c, Tail(edits))

incorrect_edit(c, text) ==
    LET parsed == parse_edits(text) IN
    IF ~parsed.ok THEN <<ParseProblem>>
    ELSE check_edits(c, parsed.edits)

----------------------------------------------------------------------------
(* overwrite_code_with_edits: called at steps.py:181 *)

\* The contract applies a batch that still has problems "as-is" and does not
\* fail on it: an edit whose file is not in the Code dict has no content to
\* replace in and is passed over; an edit whose before text does not occur
\* leaves the content as it is.

\* Mutant: every edit is applied to the contents at the start (snapshot).
RECURSIVE apply_edits_snapshot(_, _, _)
apply_edits_snapshot(c, snap, edits) ==
    IF edits = <<>> THEN c
    ELSE LET edit == Head(edits) IN
         IF edit.filename \notin DOMAIN c
         THEN apply_edits_snapshot(c, snap, Tail(edits))
         ELSE apply_edits_snapshot(
                  [c EXCEPT ![edit.filename] =
                       ReplaceFirst(snap[edit.filename], edit.before, edit.after)],
                  snap, Tail(edits))

apply_edits_frozen(c, edits) == apply_edits_snapshot(c, c, edits)

\* Mutant: an edit is applied to every file, not only to the one it names.
RECURSIVE apply_edits_every_file(_, _)
apply_edits_every_file(c, edits) ==
    IF edits = <<>> THEN c
    ELSE LET edit == Head(edits) IN
         IF edit.filename \notin DOMAIN c
         THEN apply_edits_every_file(c, Tail(edits))
         ELSE apply_edits_every_file(
                  [f \in DOMAIN c |-> ReplaceFirst(c[f], edit.before, edit.after)],
                  Tail(edits))

\* Apply the edits in order, each to the current content of its file.
RECURSIVE apply_edits(_, _)
apply_edits(c, edits) ==
    IF edits = <<>> THEN c
    ELSE LET edit == Head(edits) IN
         IF edit.filename \notin DOMAIN c
         THEN apply_edits(c, Tail(edits))
         ELSE apply_edits(
                  [c EXCEPT ![edit.filename] =
                       ReplaceFirst(@, edit.before, edit.after)],
                  Tail(edits))

\* The chat is parsed again; a ValueError of the parser is not caught here.
overwrite_code_with_edits(text, c) ==
    LET parsed == parse_edits(text) IN
    IF ~parsed.ok THEN [code |-> c, raised |-> "ValueError"]
    ELSE [code |-> apply_edits(c, parsed.edits), raised |-> "none"]

----------------------------------------------------------------------------
(* Inputs of the refinement loop *)

LoopContents == {<<"A", "A">>, <<"A", "B">>}

LoopFileSets ==
    {[f \in {"main.py", "run.sh"} |-> IF f = "main.py" THEN c ELSE <<"B">>] :
        c \in LoopContents}

LoopSections ==
    {EditSection("main.py", <<"A">>, <<"B">>),
     EditSection("main.py", <<"B">>, <<>>),
     EditSection("ghost.py", <<"A">>, <<"B">>)}

LoopResponses ==
    SeqsUpTo(LoopSections, MaxResponse)
    \cup {<<MalformedSection>>,
          <<EditSection("main.py", <<"A">>, <<"B">>), MalformedSection>>}

----------------------------------------------------------------------------
(* The state of the other operations while they are not running *)

NoAgent == [op |-> "none", config |-> "none", step |-> "idle"]

NoParse == [ok |-> TRUE, edits |-> <<>>]

NoRun == [consent |-> "unasked", sends |-> <<>>]

NoEnv == [answer |-> <<>>, events |-> <<>>]

ExtIdle ==
    /\ files = <<>>
    /\ keys = <<>>
    /\ workspace = <<>>
    /\ memory = <<>>
    /\ edits_out = NoParse
    /\ agent = NoAgent
    /\ run = NoRun
    /\ env = NoEnv

----------------------------------------------------------------------------
(* Messages *)

Msg(role, kind, text, probs) ==
    [role |-> role, kind |-> kind, chat |-> text, problems |-> probs]

\* improve, lines 159-164
InitialMessages ==
    <<Msg("system", "preprompt", <<>>, <<>>),
      Msg("human", "files", <<>>, <<>>),
      Msg("human", "request", <<>>, <<>>)>>

NotHanded == [called |-> FALSE, chat |-> <<>>]

----------------------------------------------------------------------------
(* improve: steps.py:151-183 *)

Init ==
    /\ code \in LoopFileSets
    /\ code0 = code
    /\ messages = InitialMessages
    /\ chat = <<>>
    /\ problems = <<InitialProblem>>
    /\ edit_refinements = 0
    /\ pc = "while"
    /\ raised = "none"
    /\ calls = 0
    /\ handed = NotHanded
    /\ ExtIdle

\* Mutant: the counter is not part of the loop condition.
LoopGuardUnbounded == Len(problems) > 0

\* line 168
LoopGuard ==
    Len(problems) > 0 /\ edit_refinements <= MAX_EDIT_REFINEMENT_STEPS

\* lines 169-170: messages = ai.next(messages); chat = messages[-1].content
AiNext ==
    /\ pc = "while"
    /\ LoopGuard
    /\ \E response \in LoopResponses :
          /\ messages' = Append(messages, Msg("ai", "completion", response, <<>>))
          /\ chat' = response
    /\ calls' = calls + 1
    /\ pc' = "check"
    /\ UNCHANGED ext
    /\ UNCHANGED <<code, problems, edit_refinements, raised, code0, handed>>

\* Mutant: the validator applies the edits it accepts.
IncorrectEditMutating ==
    /\ pc = "check"
    /\ problems' = incorrect_edit(code, chat)
    /\ code' = overwrite_code_with_edits(chat, code).code
    /\ pc' = "feedback"
    /\ UNCHANGED ext
    /\ UNCHANGED <<messages, chat, edit_refinements, raised, code0, calls, handed>>

\* line 171: problems = incorrect_edit(code, chat)
IncorrectEdit ==
    /\ pc = "check"
    /\ problems' = incorrect_edit(code, chat)
    /\ pc' = "feedback"
    /\ UNCHANGED ext
    /\ UNCHANGED <<code, messages, chat, edit_refinements, raised, code0,
                   calls, handed>>

\* Mutant: a corrective message is appended after every round.
FeedbackAlways ==
    /\ pc = "feedback"
    /\ messages' = Append(messages, Msg("human", "corrective", <<>>, problems))
    /\ edit_refinements' = edit_refinements + 1
    /\ pc' = "while"
    /\ UNCHANGED ext
    /\ UNCHANGED <<code, chat, problems, raised, code0, calls, handed>>

\* lines 172-180: the corrective message, then edit_refinements += 1
Feedback ==
    /\ pc = "feedback"
    /\ IF Len(problems) > 0
       THEN messages' = Append(messages, Msg("human", "corrective", <<>>, problems))
       ELSE messages' = messages
    /\ edit_refinements' = edit_refinements + 1
    /\ pc' = "while"
    /\ UNCHANGED ext
    /\ UNCHANGED <<code, chat, problems, raised, code0, calls, handed>>

\* line 168, condition false: leave the loop
LoopExit ==
    /\ pc = "while"
    /\ ~LoopGuard
    /\ pc' = "overwrite"
    /\ UNCHANGED ext
    /\ UNCHANGED <<code, messages, chat, problems, edit_refinements, raised,
                   code0, calls, handed>>

\* lines 181-183: overwrite_code_with_edits(chat, code); log; return code
Overwrite ==
    /\ pc = "overwrite"
    /\ handed' = [called |-> TRUE, chat |-> chat]
    /\ LET r == overwrite_code_with_edits(chat, code) IN
          /\ code' = r.code
          /\ raised' = r.raised
          /\ pc' = IF r.raised = "none" THEN "done" ELSE "raised"
    /\ UNCHANGED ext
    /\ UNCHANGED <<messages, chat, problems, edit_refinements, code0, calls>>

Next == AiNext \/ IncorrectEdit \/ Feedback \/ LoopExit \/ Overwrite

Spec == Init /\ [][Next]_vars

----------------------------------------------------------------------------
(* The validator and the applier on their own: incorrect_edit             *)
(* (steps.py:127-148) and overwrite_code_with_edits (steps.py:181) are run *)
(* once each on an enumerated Code dict and batch.                         *)

\* the fixture of the multiple-occurrence rule: "A\nA\n", "A\n" -> "B\n"
FixtureContent == <<"A", "\n", "A", "\n">>

FixtureSection == EditSection("main.py", <<"A", "\n">>, <<"B", "\n">>)

PatchContents == Strs(MaxLen) \cup {FixtureContent}

PatchFileSets ==
    {[f \in {"main.py", "run.sh"} |-> IF f = "main.py" THEN c ELSE <<"B">>] :
        c \in PatchContents}

PatchBefores == {<<>>, <<"A">>, <<"B">>, <<"A", "B">>}

PatchAfters == {<<>>, <<"B">>}

PatchSections ==
    {EditSection("main.py", b, a) : b \in PatchBefores, a \in PatchAfters}
    \cup {EditSection("ghost.py", <<"A">>, <<"B">>),
          EditSection("run.sh", <<"B">>, <<"A">>),
          FixtureSection}

PatchChats == SeqsUpTo(PatchSections, MaxBatch)

InitPatch ==
    /\ code \in PatchFileSets
    /\ code0 = code
    /\ chat \in PatchChats
    /\ messages = InitialMessages
    /\ problems = <<InitialProblem>>
    /\ edit_refinements = 0
    /\ pc = "validate"
    /\ raised = "none"
    /\ calls = 0
    /\ handed = NotHanded
    /\ ExtIdle

\* problems = incorrect_edit(code, chat)
PatchValidate ==
    /\ pc = "validate"
    /\ problems' = incorrect_edit(code, chat)
    /\ pc' = "apply"
    /\ UNCHANGED ext
    /\ UNCHANGED <<code, messages, chat, edit_refinements, raised, code0,
                   calls, handed>>

\* overwrite_code_with_edits(chat, code)
PatchApply ==
    /\ pc = "apply"
    /\ handed' = [called |-> TRUE, chat |-> chat]
    /\ LET r == overwrite_code_with_edits(chat, code) IN
          /\ code' = r.code
          /\ raised' = r.raised
          /\ pc' = IF r.raised = "none" THEN "applied" ELSE "raised"
    /\ UNCHANGED ext
    /\ UNCHANGED <<messages, chat, problems, edit_refinements, code0, calls>>

NextPatch == PatchValidate \/ PatchApply

SpecPatch == InitPatch /\ [][NextPatch]_vars

----------------------------------------------------------------------------
(* Properties *)

Terminal == pc \in {"done", "raised"}

LastMessage == messages[Len(messages)]

\* the edits of a chat whose sections are all well-formed
EditsOf(text) == parse_edits(text).edits

\* an edit is applicable to a Code dict: its file is a key and its before
\* text occurs in the file's content
Applicable(c, edit) ==
    /\ edit.filename \in DOMAIN c
    /\ IsSubstring(edit.before, c[edit.filename])

\* the start positions of the occurrences of b in c
Occurrences(b, c) ==
    {i \in 1..(Len(c) - Len(b) + 1) : SubSeq(c, i, i + Len(b) - 1) = b}

Min(S) == CHOOSE x \in S : \A y \in S : x <= y

\* content of file f after the first k edits, each applied to what the ones
\* before it left
ContentAfter(c, edits, f, k) ==
    LET step[j \in 0..k] ==
            IF j = 0 THEN c[f]
            ELSE IF edits[j].filename = f
                 THEN ReplaceFirst(step[j - 1], edits[j].before, edits[j].after)
                 ELSE step[j - 1]
    IN step[k]

Reverse(q) == [i \in 1..Len(q) |-> q[Len(q) + 1 - i]]

\* steps of improve still to run, counted from the loop counter and position
Rank ==
    CASE pc = "while"     -> 3 * (MAX_EDIT_REFINEMENT_STEPS + 1 - edit_refinements) + 2
      [] pc = "check"     -> 3 * (MAX_EDIT_REFINEMENT_STEPS + 1 - edit_refinements) + 1
      [] pc = "feedback"  -> 3 * (MAX_EDIT_REFINEMENT_STEPS + 1 - edit_refinements)
      [] pc = "overwrite" -> 1
      [] OTHER            -> 0

(* C1: improve makes at most MAX_EDIT_REFINEMENT_STEPS + 1 model calls,    *)
(* whatever the responses are, and then ends: every step lowers a rank     *)
(* that is never negative, and a step is possible until improve has        *)
(* returned or raised.                                                     *)
C1_BoundedCalls ==
    /\ [](calls <= MAX_EDIT_REFINEMENT_STEPS + 1)
    /\ [](Rank >= 0)
    /\ [](Terminal \/ ENABLED Next)
    /\ [][Rank' < Rank]_vars

\* improve ended after MAX_EDIT_REFINEMENT_STEPS + 1 calls, problems left
C1_Witness ==
    /\ Terminal
    /\ calls = MAX_EDIT_REFINEMENT_STEPS + 1
    /\ Len(problems) > 0

(* C2: a batch is handed to overwrite_code_with_edits only when the        *)
(* validation of its round reported no problems, and the Code dict         *)
(* changes only through that call.                                         *)
C2_NoFailedEditApplied ==
    /\ handed.called =>
          \A i \in 1..Len(EditsOf(handed.chat)) :
              Applicable(code0, EditsOf(handed.chat)[i])
    /\ code # code0 => handed.called

(* C3: when the loop ends on the retry bound with problems left, improve   *)
(* does not raise: the batch of the last response is handed to             *)
(* overwrite_code_with_edits and improve returns.                          *)
C3_ExhaustedAppliesLastBatch ==
    (Terminal /\ Len(problems) > 0) =>
        /\ raised = "none"
        /\ handed = [called |-> TRUE, chat |-> chat]
        /\ code = apply_edits(code0, EditsOf(chat))

C5_CorrectiveIsSent ==
    /\ pc \in {"overwrite", "done", "raised"} => LastMessage.kind # "corrective"
    /\ (pc = "while" /\ LastMessage.kind = "corrective") => LoopGuard

(* C6: a parse error of a model response never leaves improve, in any      *)
(* round and in the final apply step: it becomes a problem list of exactly *)
(* one entry.                                                              *)
C6_ParseErrorNeverEscapes ==
    /\ raised = "none"
    /\ (pc = "feedback" /\ ~parse_edits(chat).ok) => Len(problems) = 1

(* C7: the validator returns, in parse order, one problem for every edit   *)
(* that is not applicable and none for the others: FileNotFound when the   *)
(* file is not a key, otherwise SnippetNotFound when the before text does  *)
(* not occur in the content.                                               *)
C7_OneProblemPerInapplicableEdit ==
    pc \in {"apply", "applied"} =>
        LET edits == EditsOf(chat)
            bad == {i \in 1..Len(edits) : ~Applicable(code0, edits[i])}
            nth(k) == CHOOSE i \in bad : Cardinality({j \in bad : j <= i}) = k
        IN /\ Len(problems) = Cardinality(bad)
           /\ \A k \in 1..Len(problems) :
                 problems[k] =
                    IF edits[nth(k)].filename \notin DOMAIN code0
                    THEN FileNotFound(edits[nth(k)].filename)
                    ELSE SnippetNotFound(edits[nth(k)].before)

\* an applicable edit between a missing file and a missing snippet
C7_Witness ==
    /\ pc = "apply"
    /\ Len(chat) = 3
    /\ Len(problems) = 2
    /\ Applicable(code0, EditsOf(chat)[2])
    /\ problems[1].kind = "FileNotFound"
    /\ problems[2].kind = "SnippetNotFound"

(* C8: until overwrite_code_with_edits is called the Code dict holds the   *)
(* contents improve was entered with, and the problems of every round are  *)
(* those of the response against these contents.                           *)
C8_CodeUnchangedUntilApply ==
    /\ ~Terminal => (code = code0 /\ ~handed.called)
    /\ (calls > 0 /\ pc # "check") => problems = incorrect_edit(code0, chat)

\* a retry round has validated a response without problems
C8_Witness ==
    /\ pc = "feedback"
    /\ calls = 2
    /\ problems = <<>>
    /\ Len(chat) > 0

(* C9: when the before text of the one edit of a batch occurs more than    *)
(* once in the file, the applier replaces the first occurrence and leaves  *)
(* the rest of the content, later occurrences included, as it was;         *)
(* "A\nA\n" with "A\n" -> "B\n" becomes "B\nA\n".                           *)
C9_FirstOccurrenceOnly ==
    (pc = "applied" /\ Len(chat) = 1) =>
        LET e == chat[1]
            f == e.filename
            occ == IF f \in DOMAIN code0
                   THEN Occurrences(e.before, code0[f]) ELSE {}
        IN /\ Cardinality(occ) >= 2 =>
                 LET i == Min(occ) IN
                 code[f] = SubSeq(code0[f], 1, i - 1) \o e.after
                           \o SubSeq(code0[f], i + Len(e.before), Len(code0[f]))
           /\ (code0["main.py"] = FixtureContent /\ e = FixtureSection) =>
                 code["main.py"] = <<"B", "\n", "A", "\n">>

\* the fixture has been applied
C9_Witness ==
    /\ pc = "applied"
    /\ chat = <<FixtureSection>>
    /\ code0["main.py"] = FixtureContent
    /\ Cardinality(Occurrences(<<"A", "\n">>, code0["main.py"])) = 2

(* C10: the applier applies the edits in parse order, each to the content  *)
(* the edits before it produced.                                           *)
C10_EditsCompose ==
    pc = "applied" =>
        /\ DOMAIN code = DOMAIN code0
        /\ \A f \in DOMAIN code0 :
              code[f] = ContentAfter(code0, EditsOf(chat), f, Len(chat))

\* two edits to the same file whose result differs from applying both to
\* the contents at the start and from applying them in the other order
C10_Witness ==
    /\ pc = "applied"
    /\ Len(chat) = 2
    /\ chat[1].filename = "main.py"
    /\ chat[2].filename = "main.py"
    /\ code # apply_edits_frozen(code0, EditsOf(chat))
    /\ code # apply_edits(code0, Reverse(EditsOf(chat)))

(* C11: a batch the validator reported no problem for is applicable edit   *)
(* by edit: the file of every edit is a key and its before text occurs in  *)
(* the content the edits before it left.                                   *)
C11_ValidBatchFullyApplicable ==
    (pc \in {"apply", "applied"} /\ problems = <<>>) =>
        LET edits == EditsOf(chat) IN
        \A k \in 1..Len(edits) :
            /\ edits[k].filename \in DOMAIN code0
            /\ IsSubstring(edits[k].before,
                           ContentAfter(code0, edits, edits[k].filename, k - 1))

\* the files a batch names
Targets(text) == {text[i].filename : i \in 1..Len(text)}

(* C12: applying a batch without problems leaves every file that no edit   *)
(* of the batch names as it was, and neither removes nor adds a key.       *)
C12_OnlyNamedFilesChange ==
    (pc = "applied" /\ problems = <<>>) =>
        /\ DOMAIN code = DOMAIN code0
        /\ \A f \in DOMAIN code0 : f \notin Targets(chat) => code[f] = code0[f]

\* a valid batch changed main.py and did not name run.sh, whose content
\* holds the before text of one of the edits
C12_Witness ==
    /\ pc = "applied"
    /\ problems = <<>>
    /\ Targets(chat) = {"main.py"}
    /\ code["main.py"] # code0["main.py"]
    /\ \E i \in 1..Len(chat) : IsSubstring(chat[i].before, code0["run.sh"])
    /\ code["run.sh"] = code0["run.sh"]

----------------------------------------------------------------------------
(* parse_chat: chat_to_files.py:11-55.  Here chat is the text itself, a    *)
(* sequence of characters, and the regular expression of line 27 is        *)
(* matched character by character.                                         *)

IsSpace(ch) == ch \in {" ", "\n"}

\* the character U+0060, which a TLA+ string cannot hold
Backtick == "BACKTICK"

FenceAt(t, i) ==
    i + 2 <= Len(t) /\ t[i] = Backtick /\ t[i + 1] = Backtick /\ t[i + 2] = Backtick

\* the position after the longest run of non-space characters from s
RunEnd(t, s) ==
    Min({e \in s..(Len(t) + 1) : e = Len(t) + 1 \/ IsSpace(t[e])})

\* the first position from q that holds no space
SkipSpace(t, q) ==
    Min({j \in q..(Len(t) + 1) : j = Len(t) + 1 \/ ~IsSpace(t[j])})

NoMatch == [ok |-> FALSE, path |-> <<>>, body |-> <<>>, end |-> 0]

\* one match of the expression starting at s, or NoMatch
MatchAt(t, s) ==
    LET e == RunEnd(t, s)
        q == SkipSpace(t, e + 1)
        newlines == {n \in (q + 3)..Len(t) : t[n] = "\n"}
        b == Min(newlines) + 1
        closers == {k \in (b + 1)..(Len(t) - 2) : FenceAt(t, k)}
    IN IF /\ s <= Len(t)
          /\ ~IsSpace(t[s])
          /\ e <= Len(t)
          /\ t[e] = "\n"
          /\ FenceAt(t, q)
          /\ newlines # {}
          /\ closers # {}
       THEN [ok |-> TRUE, path |-> SubSeq(t, s, e - 1),
             body |-> SubSeq(t, b, Min(closers) - 1), end |-> Min(closers) + 2]
       ELSE NoMatch

\* re.finditer: the leftmost match from pos, then on from its end
RECURSIVE finditer(_, _)
finditer(t, pos) ==
    LET starts == {s \in pos..Len(t) : MatchAt(t, s).ok} IN
    IF starts = {} THEN <<>>
    ELSE LET m == MatchAt(t, Min(starts)) IN <<m>> \o finditer(t, m.end + 1)

RemovedChars == {":", "<", ">", "\"", "|", "?", "*"}

\* line 33
strip_chars(path) == SelectSeq(path, LAMBDA ch : ch \notin RemovedChars)

\* lines 36 and 39: ^\[(.*)\]$ and ^`(.*)`$
unwrap(path, left, right) ==
    IF Len(path) >= 2 /\ path[1] = left /\ path[Len(path)] = right
    THEN SubSeq(path, 2, Len(path) - 1)
    ELSE path

\* line 42
strip_trailing(path) ==
    IF path # <<>> /\ path[Len(path)] \in {"]", ":"}
    THEN SubSeq(path, 1, Len(path) - 1)
    ELSE path

\* Mutant: the backticks are unwrapped before the brackets.
clean_path_backticks_first(raw) ==
    strip_trailing(unwrap(unwrap(strip_chars(raw), Backtick, Backtick), "[", "]"))

\* lines 32-42
clean_path(raw) ==
    strip_trailing(unwrap(unwrap(strip_chars(raw), "[", "]"), Backtick, Backtick))

README == <<"R", "E", "A", "D", "M", "E", ".", "m", "d">>

File(name, content) == [name |-> name, content |-> content]

\* Mutant: the README text ends where the first match starts.
readme_before_first_match(t) ==
    LET starts == {s \in 1..Len(t) : MatchAt(t, s).ok} IN
    IF starts = {} THEN t ELSE SubSeq(t, 1, Min(starts) - 1)

\* line 51: chat.split("```")[0]
readme_text(t) ==
    LET fences == {i \in 1..Len(t) : FenceAt(t, i)} IN
    IF fences = {} THEN t ELSE SubSeq(t, 1, Min(fences) - 1)

matched_files(t) ==
    LET ms == finditer(t, 1) IN
    [i \in 1..Len(ms) |-> File(clean_path(ms[i].path), ms[i].body)]

\* Mutant: the README pair is put first.
parse_chat_readme_first(t) ==
    <<File(README, readme_text(t))>> \o matched_files(t)

parse_chat(t) ==
    matched_files(t) \o <<File(README, readme_text(t))>>

----------------------------------------------------------------------------
(* gen_code: steps.py:42-51, and the Code dict of code.py *)

\* str.strip()
RECURSIVE lstrip(_)
lstrip(t) == IF t # <<>> /\ IsSpace(Head(t)) THEN lstrip(Tail(t)) ELSE t

RECURSIVE rstrip(_)
rstrip(t) ==
    IF t # <<>> /\ IsSpace(t[Len(t)]) THEN rstrip(SubSeq(t, 1, Len(t) - 1)) ELSE t

strip(t) == rstrip(lstrip(t))

Range(q) == {q[i] : i \in 1..Len(q)}

\* the keys of {key: val for key, val in files}, in insertion order
RECURSIVE dict_keys(_)
dict_keys(pairs) ==
    IF pairs = <<>> THEN <<>>
    ELSE LET before == dict_keys(SubSeq(pairs, 1, Len(pairs) - 1))
             key == pairs[Len(pairs)].name
         IN IF key \in Range(before) THEN before ELSE Append(before, key)

\* Mutant: the first value written for a key is kept.
RECURSIVE dict_items_first(_)
dict_items_first(pairs) ==
    IF pairs = <<>> THEN <<>>
    ELSE LET before == dict_items_first(SubSeq(pairs, 1, Len(pairs) - 1))
             pair == pairs[Len(pairs)]
         IN [k \in DOMAIN before \cup {pair.name} |->
                IF k \in DOMAIN before THEN before[k] ELSE pair.content]

\* the items of {key: val for key, val in files}: a later value replaces
\* the earlier one
RECURSIVE dict_items(_)
dict_items(pairs) ==
    IF pairs = <<>> THEN <<>>
    ELSE LET before == dict_items(SubSeq(pairs, 1, Len(pairs) - 1))
             pair == pairs[Len(pairs)]
         IN [k \in DOMAIN before \cup {pair.name} |->
                IF k = pair.name THEN pair.content ELSE before[k]]

----------------------------------------------------------------------------
(* overwrite_files: chat_to_files.py:76-94, on the DB of db.py *)

LAST_MODIFICATION_README == <<"L", "A", "S", "T", "_", "M", "O", "D", "I", "F", "I", "C", "A", "T", "I", "O", "N", "_", "R", "E", "A", "D", "M", "E", ".", "m", "d">>

ALL_OUTPUT_OVERWRITE == <<"a", "l", "l", "_", "o", "u", "t", "p", "u", "t", "_", "o", "v", "e", "r", "w", "r", "i", "t", "e", ".", "t", "x", "t">>

\* DB.__setitem__ (db.py:88-111): the file path / key is written; with the
\* empty key the path is the directory itself and write_text fails
db_set(db, key, val) ==
    IF key = <<>> THEN [db |-> db, raised |-> "IsADirectoryError"]
    ELSE [db |-> [k \in DOMAIN db \cup {key} |-> IF k = key THEN val ELSE db[k]],
          raised |-> "none"]

\* Mutant: README.md is written to the workspace like every other file.
store_file_in_place(ws, mem, file) ==
    LET r == db_set(ws, file.name, file.content) IN
    [workspace |-> r.db, memory |-> mem, raised |-> r.raised]

\* lines 91-94
store_file(ws, mem, file) ==
    IF file.name = README
    THEN LET r == db_set(mem, LAST_MODIFICATION_README, file.content) IN
         [workspace |-> ws, memory |-> r.db, raised |-> r.raised]
    ELSE LET r == db_set(ws, file.name, file.content) IN
         [workspace |-> r.db, memory |-> mem, raised |-> r.raised]

\* the for loop of lines 90-94; an exception ends it
RECURSIVE store_files(_, _, _)
store_files(ws, mem, pairs) ==
    IF pairs = <<>> THEN [workspace |-> ws, memory |-> mem, raised |-> "none"]
    ELSE LET r == store_file(ws, mem, Head(pairs)) IN
         IF r.raised # "none" THEN r
         ELSE store_files(r.workspace, r.memory, Tail(pairs))

----------------------------------------------------------------------------
(* Chat texts given to parse_chat, gen_code and overwrite_files *)

\* most chunks in an enumerated chat text
MaxChunks == 4
\* longest path token enumerated in front of a block
MaxToken == 3

Fence == <<Backtick, Backtick, Backtick>>

\* a path token, a newline and one fenced block
Block(token, body) == token \o <<"\n">> \o Fence \o <<"\n">> \o body \o Fence

ChatChunks ==
    {<<"a">>, <<"\n">>, <<" ">>, Fence, <<"a", "\n">> \o Fence \o <<"\n">>}

RECURSIVE Flatten(_)
Flatten(q) == IF q = <<>> THEN <<>> ELSE Head(q) \o Flatten(Tail(q))

ChunkTexts == {Flatten(q) : q \in SeqsUpTo(ChatChunks, MaxChunks)}

TokenChars == {"a", "[", "]", Backtick, ":", "*"}

Tokens == SeqsUpTo(TokenChars, MaxToken) \ {<<>>}

BracketToken == <<"[", "f", "o", "o", "/", "b", "a", "r", ".", "p", "y", "]">>

BacktickToken == <<Backtick, "m", "a", "i", "n", ".", "p", "y", Backtick>>

TrailingToken == <<"m", "a", "i", "n", ".", "p", "y", "]">>

\* backticks inside brackets, and brackets inside backticks
BackticksInBrackets == <<"[", Backtick, "a", Backtick, "]">>

BracketsInBackticks == <<Backtick, "[", "a", "]", Backtick>>

FixtureTokens ==
    {BracketToken, BacktickToken, TrailingToken, BackticksInBrackets,
     BracketsInBackticks}

TokenTexts == {Block(token, <<"b">>) : token \in Tokens \cup FixtureTokens}

HelloPath == <<"h", "e", "l", "l", "o", ".", "p", "y">>

HelloBody == <<"p", "r", "i", "n", "t", "(", "1", ")", "\n">>

HelloChat == Block(HelloPath, HelloBody)

\* a block named README.md after some text
ReadmeChat == <<"a", "\n">> \o Block(README, <<"b">>)

\* the path a twice, another path between
DuplicateChat ==
    Block(<<"a">>, <<"b">>) \o <<"\n">> \o Block(<<"c">>, <<"d">>) \o <<"\n">>
        \o Block(<<"a">>, <<"e">>) \o <<"\n">>

\* a block named README.md and a block with an empty name
EmptyNameChat == Block(README, <<"b">>) \o <<"\n">> \o Block(<<":">>, <<"b">>)

\* a block with no path token in front, then a block with one
SkippedChat == Fence \o <<"\n", "x">> \o Fence \o <<"\n">> \o Block(<<"a">>, <<"b">>)

\* a path token and a block with nothing between its fences
EmptyBlockChat == <<"a", "\n">> \o Fence \o <<"\n">> \o Fence

ChatTexts ==
    ChunkTexts \cup TokenTexts
        \cup {HelloChat, ReadmeChat, DuplicateChat, EmptyNameChat, SkippedChat,
              EmptyBlockChat}

\* what the workspace holds before the chat is applied
Workspaces ==
    {<<>>, (README :> <<"r">>), (README :> <<"r">>) @@ (<<"a">> :> <<"x">>)}

----------------------------------------------------------------------------
(* The chat operations, each applied once to a chat text *)

CODE_GEN_LOG_FILE == <<"a", "l", "l", "_", "o", "u", "t", "p", "u", "t", ".", "t", "x", "t">>

InitChat ==
    /\ chat \in ChatTexts
    /\ workspace \in Workspaces
    /\ memory = <<>>
    /\ files = <<>>
    /\ keys = <<>>
    /\ edits_out = NoParse
    /\ agent = NoAgent
    /\ run = NoRun
    /\ env = NoEnv
    /\ code = <<>>
    /\ code0 = <<>>
    /\ messages = <<>>
    /\ problems = <<>>
    /\ edit_refinements = 0
    /\ pc = "chat"
    /\ raised = "none"
    /\ calls = 0
    /\ handed = NotHanded

\* files = parse_chat(chat)
ParseChat ==
    /\ pc = "chat"
    /\ files' = parse_chat(chat)
    /\ pc' = "parsed"
    /\ UNCHANGED <<keys, workspace, memory, edits_out, agent, run, env>>
    /\ UNCHANGED <<code, messages, chat, problems, edit_refinements, raised,
                   code0, calls, handed>>

\* gen_code, lines 48-51 of steps.py; chat is the last message of the model
GenCode ==
    /\ pc = "chat"
    /\ LET stripped == strip(chat)
           pairs == parse_chat(stripped)
       IN /\ memory' = db_set(memory, CODE_GEN_LOG_FILE, stripped).db
          /\ files' = pairs
          /\ keys' = dict_keys(pairs)
          /\ code' = dict_items(pairs)
    /\ pc' = "generated"
    /\ UNCHANGED <<workspace, edits_out, agent, run, env>>
    /\ UNCHANGED <<messages, chat, problems, edit_refinements, raised,
                   code0, calls, handed>>

\* overwrite_files(chat, dbs)
OverwriteFiles ==
    /\ pc = "chat"
    /\ LET logged == db_set(memory, ALL_OUTPUT_OVERWRITE, chat).db
           pairs == parse_chat(chat)
           r == store_files(workspace, logged, pairs)
       IN /\ files' = pairs
          /\ workspace' = r.workspace
          /\ memory' = r.memory
          /\ raised' = r.raised
          /\ pc' = IF r.raised = "none" THEN "overwritten" ELSE "raised"
    /\ UNCHANGED <<keys, edits_out, agent, run, env>>
    /\ UNCHANGED <<code, messages, chat, problems, edit_refinements,
                   code0, calls, handed>>

NextChat == ParseChat \/ GenCode \/ OverwriteFiles

SpecChat == InitChat /\ [][NextChat]_vars

----------------------------------------------------------------------------
(* Properties of the chat operations *)

\* C13: overwrite_files never changes what the workspace holds under
\* README.md; when it returns, the text of the last README.md pair is in the
\* memory under LAST_MODIFICATION_README.md, every other pair is in the
\* workspace under its own name, and nothing else of the workspace changed.
C13_ReadmeKeptAside ==
    [][(pc = "chat" /\ pc' \in {"overwritten", "raised"}) =>
          /\ (README \in DOMAIN workspace') = (README \in DOMAIN workspace)
          /\ README \in DOMAIN workspace => workspace'[README] = workspace[README]
          /\ pc' = "overwritten" =>
                /\ LAST_MODIFICATION_README \in DOMAIN memory'
                /\ memory'[LAST_MODIFICATION_README] = files'[Len(files')].content
                /\ \A i \in 1..Len(files') :
                      files'[i].name # README =>
                          /\ files'[i].name \in DOMAIN workspace'
                          /\ \/ workspace'[files'[i].name] = files'[i].content
                             \/ \E j \in (i + 1)..Len(files') :
                                   files'[j].name = files'[i].name
                /\ \A k \in DOMAIN workspace' :
                      \/ k \in DOMAIN workspace /\ workspace'[k] = workspace[k]
                      \/ \E i \in 1..Len(files') :
                            /\ files'[i].name = k
                            /\ files'[i].content = workspace'[k]
      ]_vars

C13_Witness ==
    /\ pc = "overwritten"
    /\ chat = ReadmeChat
    /\ workspace = (README :> <<"r">>)
    /\ files[1] = File(README, <<"b">>)
    /\ memory[LAST_MODIFICATION_README] = <<"a", "\n">> \o README \o <<"\n">>

HasFence(t) == \E i \in 1..Len(t) : FenceAt(t, i)

\* r is t up to its first fence marker
UpToFirstFence(t, r) ==
    /\ Len(r) <= Len(t)
    /\ r = SubSeq(t, 1, Len(r))
    /\ ~HasFence(r \o SubSeq(t, Len(r) + 1, Min({Len(t), Len(r) + 2})))
    /\ Len(r) = Len(t) \/ FenceAt(t, Len(r) + 1)

\* C15 as stated: parse_chat returns for every text, its last pair is
\* README.md with the text up to the first fence marker, and a text with no
\* fenced block (here: at most one fence marker, so no fence can be closed)
\* gives exactly the README.md pair with the whole text.
C15_NoBlockGivesWholeText ==
    pc = "parsed" =>
        /\ raised = "none"
        /\ Len(files) >= 1
        /\ files[Len(files)].name = README
        /\ UpToFirstFence(chat, files[Len(files)].content)
        /\ Cardinality({i \in 1..Len(chat) : FenceAt(chat, i)}) <= 1 =>
              files = <<File(README, chat)>>

\* C15, amended: parse_chat returns for every text, its last pair is
\* README.md with the text up to the first fence marker; a text with no
\* fence marker gives exactly the README.md pair with the whole text; every
\* other pair has a path token followed by a newline in the text, and a block
\* without one is skipped while the blocks after it are still returned.
C15_ParseChatTotal ==
    pc = "parsed" =>
        /\ raised = "none"
        /\ Len(files) >= 1
        /\ files[Len(files)].name = README
        /\ UpToFirstFence(chat, files[Len(files)].content)
        /\ ~HasFence(chat) => files = <<File(README, chat)>>
        /\ Len(files) - 1 <=
              Cardinality({s \in 2..Len(chat) :
                              ~IsSpace(chat[s - 1]) /\ chat[s] = "\n"})
        /\ chat = SkippedChat =>
              files = <<File(<<"a">>, <<"b">>), File(README, <<>>)>>

C15_Witness ==
    /\ pc = "parsed"
    /\ chat = SkippedChat
    /\ Len(files) = 2
    /\ files[2] = File(README, <<>>)

\* C16 as stated: for the text hello.py, newline, one fenced block holding
\* print(1), parse_chat returns the hello.py pair and a README.md pair with
\* the empty text.
C16_PathTokenNotInReadme ==
    (pc = "parsed" /\ chat = HelloChat) =>
        files = <<File(HelloPath, HelloBody), File(README, <<>>)>>

\* C16, amended: for a path token without a fence marker, a newline and one
\* fenced block, parse_chat returns the pair of the block and a README.md
\* pair whose text is the path token and the newline.
C16_PathTokenInReadme ==
    pc = "parsed" =>
        \A token \in Tokens \cup FixtureTokens \cup {HelloPath} :
            \A body \in {<<"b">>, HelloBody} :
                (chat = Block(token, body) /\ ~HasFence(token)) =>
                    /\ Len(files) = 2
                    /\ files[1].content = body
                    /\ files[2] = File(README, token \o <<"\n">>)

C16_Witness ==
    /\ pc = "parsed"
    /\ chat = HelloChat
    /\ files = <<File(HelloPath, HelloBody), File(README, HelloPath \o <<"\n">>)>>

C18_EmptyBlockEmitted ==
    (pc = "parsed" /\ chat = EmptyBlockChat) =>
        \E i \in 1..Len(files) : files[i] = File(<<"a">>, <<>>)

\* C19: the keys of the Code that gen_code builds are unique and non-empty;
\* a path that parse_chat returned twice has one entry, with the content
\* written last, at the position of its first insertion.
C19_KeysUniqueNonEmpty ==
    pc = "generated" =>
        /\ \A i, j \in 1..Len(keys) : keys[i] = keys[j] => i = j
        /\ \A i \in 1..Len(keys) : keys[i] # <<>>
        /\ Range(keys) = DOMAIN code
        /\ \A i \in 1..Len(files) :
              /\ files[i].name \in DOMAIN code
              /\ \/ code[files[i].name] = files[i].content
                 \/ \E j \in (i + 1)..Len(files) : files[j].name = files[i].name
        /\ \A i, j \in 1..Len(keys) :
              i < j =>
                  Min({m \in 1..Len(files) : files[m].name = keys[i]})
                      < Min({m \in 1..Len(files) : files[m].name = keys[j]})

----------------------------------------------------------------------------
(* CliAgent.init and CliAgent.improve: cli_agent.py:97-112 *)

ENTRYPOINT_FILE == "run.sh"

----------------------------------------------------------------------------
(* execute_entrypoint: steps.py:74-114 *)

\* str.lower() on the characters an answer is made of
lower_char(ch) ==
    CASE ch = "Y" -> "y"
      [] ch = "E" -> "e"
      [] ch = "S" -> "s"
      [] ch = "N" -> "n"
      [] OTHER -> ch

lower(t) == [i \in 1..Len(t) |-> lower_char(t[i])]

\* Mutant: everything but n and no counts as a yes.
accepted_unless_no(answer) == lower(answer) \notin {<<"n">>, <<"n", "o">>}

\* line 97: input().lower() in ["", "y", "yes"]
accepted(answer) == lower(answer) \in {<<>>, <<"y">>, <<"y", "e", "s">>}

\* what the call did: the exception it raised, the line read at the prompt
\* and, in order, what the user and the execution environment saw
execute_entrypoint(c, answer) ==
    IF ENTRYPOINT_FILE \notin DOMAIN c
    THEN [raised |-> "FileNotFoundError", answer |-> <<>>, events |-> <<>>]
    ELSE IF ~accepted(answer)
    THEN [raised |-> "none", answer |-> answer, events |-> <<"prompt">>]
    ELSE [raised |-> "none", answer |-> answer,
          events |-> <<"prompt", "upload", "run">>]

\* what a generation or improvement step hands back: main.py alone, or with
\* a run.sh
AgentCodes ==
    {[f \in {"main.py"} |-> c] : c \in Strs(MaxLen)}
        \cup {[f \in {"main.py", ENTRYPOINT_FILE} |-> IF f = "main.py" THEN c ELSE d] :
                c \in Strs(MaxLen), d \in Strs(1)}

\* the functions the agent was constructed with: those of with_default_config
\* (gen_code, improve of steps.py) or ones with the signatures of lines 21-29
AgentConfigs == {"default", "custom"}

AgentAt(step) == pc = "agent" /\ agent.step = step

AgentRaise(error) ==
    /\ raised' = error
    /\ pc' = "raised"
    /\ agent' = [agent EXCEPT !.step = "raised"]
    /\ UNCHANGED code

InitAgent ==
    /\ agent \in [op : {"init", "improve"}, config : AgentConfigs, step : {"start"}]
    /\ code \in IF agent.op = "init" THEN {<<>>} ELSE AgentCodes
    /\ code0 = code
    /\ pc = "agent"
    /\ raised = "none"
    /\ chat = <<>>
    /\ messages = <<>>
    /\ problems = <<>>
    /\ edit_refinements = 0
    /\ calls = 0
    /\ handed = NotHanded
    /\ files = <<>>
    /\ keys = <<>>
    /\ workspace = <<>>
    /\ memory = <<>>
    /\ edits_out = NoParse
    /\ run = NoRun
    /\ env = NoEnv

\* line 98: self.code_gen_fn(self.ai, prompt, self.memory); gen_code has a
\* fourth parameter without a default (steps.py:42-44)
AgentCodeGen ==
    /\ AgentAt("start")
    /\ agent.op = "init"
    /\ IF agent.config = "default"
       THEN AgentRaise("TypeError")
       ELSE /\ code' \in AgentCodes
            /\ agent' = [agent EXCEPT !.step = "gen_entrypoint"]
            /\ UNCHANGED <<pc, raised>>
    /\ UNCHANGED <<files, keys, workspace, memory, edits_out, run, env>>
    /\ UNCHANGED <<messages, chat, problems, edit_refinements, code0, calls, handed>>

\* lines 106-107: self.improve_fn(self.ai, prompt, code, self.memory); improve
\* has a fifth parameter without a default (steps.py:151-157)
AgentImproveFn ==
    /\ AgentAt("start")
    /\ agent.op = "improve"
    /\ IF agent.config = "default"
       THEN AgentRaise("TypeError")
       ELSE /\ code' \in AgentCodes
            /\ agent' = [agent EXCEPT !.step =
                            IF ENTRYPOINT_FILE \in DOMAIN code'
                            THEN "execute" ELSE "gen_entrypoint"]
            /\ UNCHANGED <<pc, raised>>
    /\ UNCHANGED <<files, keys, workspace, memory, edits_out, run, env>>
    /\ UNCHANGED <<messages, chat, problems, edit_refinements, code0, calls, handed>>

\* lines 99 and 108: gen_entrypoint(self.ai, code, self.memory); gen_entrypoint
\* has a fourth parameter without a default (steps.py:54-56), so the merge of
\* lines 100 and 109 is not reached
AgentGenEntrypoint ==
    /\ AgentAt("gen_entrypoint")
    /\ AgentRaise("TypeError")
    /\ UNCHANGED <<files, keys, workspace, memory, edits_out, run, env>>
    /\ UNCHANGED <<messages, chat, problems, edit_refinements, code0, calls, handed>>

\* what the user types at the prompt of execute_entrypoint in an agent call
AgentAnswers == {<<>>, <<"Y">>, <<"n">>}

\* lines 101 and 110: self.execute_entrypoint_fn(self.ai, self.execution_env,
\* code), the execute_entrypoint of steps.py
AgentExecute ==
    /\ AgentAt("execute")
    /\ \E answer \in AgentAnswers :
          LET r == execute_entrypoint(code, answer) IN
          /\ env' = [answer |-> r.answer, events |-> r.events]
          /\ IF r.raised # "none"
             THEN AgentRaise(r.raised)
             ELSE /\ agent' = [agent EXCEPT !.step = "review"]
                  /\ UNCHANGED <<code, pc, raised>>
    /\ UNCHANGED <<files, keys, workspace, memory, edits_out, run>>
    /\ UNCHANGED <<messages, chat, problems, edit_refinements, code0, calls, handed>>

\* lines 102-103 and 111-112: human_review, return code
AgentReturn ==
    /\ AgentAt("review")
    /\ agent' = [agent EXCEPT !.step = "returned"]
    /\ pc' = "returned"
    /\ UNCHANGED <<code, raised>>
    /\ UNCHANGED <<files, keys, workspace, memory, edits_out, run, env>>
    /\ UNCHANGED <<messages, chat, problems, edit_refinements, code0, calls, handed>>

NextAgent ==
    \/ AgentCodeGen
    \/ AgentImproveFn
    \/ AgentGenEntrypoint
    \/ AgentExecute
    \/ AgentReturn

SpecAgent == InitAgent /\ [][NextAgent]_vars

\* C20: CliAgent.init and CliAgent.improve end by returning a Code, and the
\* Code they return holds run.sh.
C20_ReturnsCodeWithEntrypoint ==
    pc \in {"returned", "raised"} =>
        /\ pc = "returned"
        /\ ENTRYPOINT_FILE \in DOMAIN code

----------------------------------------------------------------------------
(* The edit-block parser on the lines of a response.  parse_edits above    *)
(* takes the response already cut into sections; here a response is a      *)
(* sequence of lines and the sections, headers and hunks are found by a    *)
(* scan.  A section is a fence line, a header line naming the file, one or *)
(* more hunks and a fence line; a hunk is a hunk line followed by context, *)
(* removed and added lines.  Lines outside a section are prose.            *)

\* most lines in an enumerated response
MaxLines == 5
\* most lines under one hunk line in a generated section
MaxHunkLines == 2

FenceLine == [kind |-> "fence", text |-> ""]

HeaderLine(f) == [kind |-> "header", text |-> f]

HunkLine == [kind |-> "hunk", text |-> ""]

ContextLine(t) == [kind |-> "context", text |-> t]

RemovedLine(t) == [kind |-> "removed", text |-> t]

AddedLine(t) == [kind |-> "added", text |-> t]

ProseLine == [kind |-> "prose", text |-> "A"]

BodyKinds == {"context", "removed", "added"}

\* "\n".join of the texts of the lines
RECURSIVE JoinLines(_)
JoinLines(lines) ==
    IF lines = <<>> THEN <<>>
    ELSE IF Len(lines) = 1 THEN <<lines[1].text>>
    ELSE <<lines[1].text, "\n">> \o JoinLines(Tail(lines))

HasChange(hunk) == \E i \in 1..Len(hunk) : hunk[i].kind \in {"removed", "added"}

\* Mutant: the context lines are left out of before and after.
hunk_edit_changes_only(f, hunk) ==
    Edit(f,
         JoinLines(SelectSeq(hunk, LAMBDA l : l.kind = "removed")),
         JoinLines(SelectSeq(hunk, LAMBDA l : l.kind = "added")))

\* the EditBlock of one hunk
hunk_edit(f, hunk) ==
    Edit(f,
         JoinLines(SelectSeq(hunk, LAMBDA l : l.kind \in {"context", "removed"})),
         JoinLines(SelectSeq(hunk, LAMBDA l : l.kind \in {"context", "added"})))

ParseFailed == [ok |-> FALSE, edits |-> <<>>]

ScanStart ==
    [mode |-> "outside", filename |-> "", open |-> FALSE, hunk |-> <<>>,
     edits |-> <<>>]

\* the scan, line by line; st.mode is outside (no section open), header (the
\* fence was read, the header is due) or hunks
RECURSIVE scan_lines(_, _)
scan_lines(lines, st) ==
    IF lines = <<>>
    THEN IF st.mode = "outside" THEN [ok |-> TRUE, edits |-> st.edits]
         ELSE ParseFailed
    ELSE LET line == Head(lines)
             rest == Tail(lines)
             closed == Append(st.edits, hunk_edit(st.filename, st.hunk))
         IN
         IF st.mode = "outside"
         THEN IF line.kind = "fence"
              THEN scan_lines(rest, [st EXCEPT !.mode = "header"])
              ELSE scan_lines(rest, st)
         ELSE IF st.mode = "header"
         THEN IF line.kind = "header"
              THEN scan_lines(rest, [st EXCEPT !.mode = "hunks",
                                               !.filename = line.text,
                                               !.open = FALSE,
                                               !.hunk = <<>>])
              ELSE ParseFailed
         ELSE IF line.kind = "hunk"
         THEN IF st.open /\ ~HasChange(st.hunk) THEN ParseFailed
              ELSE scan_lines(rest, [st EXCEPT !.open = TRUE,
                                               !.hunk = <<>>,
                                               !.edits = IF st.open THEN closed
                                                         ELSE st.edits])
         ELSE IF line.kind \in BodyKinds
         THEN IF ~st.open THEN ParseFailed
              ELSE scan_lines(rest, [st EXCEPT !.hunk = Append(st.hunk, line)])
         ELSE IF line.kind = "fence"
         THEN IF ~st.open \/ ~HasChange(st.hunk) THEN ParseFailed
              ELSE scan_lines(rest, [st EXCEPT !.mode = "outside",
                                               !.open = FALSE,
                                               !.hunk = <<>>,
                                               !.edits = closed])
         ELSE ParseFailed

parse_edit_lines(lines) == scan_lines(lines, ScanStart)

LineAlphabet ==
    {FenceLine, HeaderLine("main.py"), HunkLine, ContextLine("A"),
     RemovedLine("A"), AddedLine("B")}

\* one section with two hunks, the first with a context line on each side
TwoHunks ==
    <<ProseLine, FenceLine, HeaderLine("main.py"),
      HunkLine, ContextLine("A"), RemovedLine("B"), AddedLine("A"), ContextLine("B"),
      HunkLine, AddedLine("B"), FenceLine>>

\* two sections with prose between
TwoFiles ==
    <<FenceLine, HeaderLine("main.py"), HunkLine, RemovedLine("A"), FenceLine,
      ProseLine,
      FenceLine, HeaderLine("run.sh"), HunkLine, RemovedLine("B"), AddedLine("A"),
      FenceLine>>

\* a good section, then one whose second hunk changes nothing
LateEmptyHunk ==
    <<FenceLine, HeaderLine("main.py"), HunkLine, RemovedLine("A"), FenceLine,
      FenceLine, HeaderLine("run.sh"), HunkLine, AddedLine("A"),
      HunkLine, ContextLine("A"), FenceLine>>

\* a hunk line and the lines under it; some hunks change nothing
HunkTexts ==
    {<<HunkLine>> \o body :
        body \in SeqsUpTo({ContextLine("A"), RemovedLine("A"), AddedLine("B")},
                          MaxHunkLines) \ {<<>>}}

\* sections of one or two hunks
SectionTexts ==
    {<<FenceLine, HeaderLine(f)>> \o first \o second \o <<FenceLine>> :
        f \in {"main.py", "run.sh"}, first \in HunkTexts,
        second \in HunkTexts \cup {<<>>}}

EditTexts ==
    SeqsUpTo(LineAlphabet, MaxLines) \cup SectionTexts
        \cup {TwoHunks, TwoFiles, LateEmptyHunk}

InitEdits ==
    /\ chat \in EditTexts
    /\ edits_out = NoParse
    /\ pc = "edits"
    /\ raised = "none"
    /\ code = <<>>
    /\ code0 = <<>>
    /\ messages = <<>>
    /\ problems = <<>>
    /\ edit_refinements = 0
    /\ calls = 0
    /\ handed = NotHanded
    /\ files = <<>>
    /\ keys = <<>>
    /\ workspace = <<>>
    /\ memory = <<>>
    /\ agent = NoAgent
    /\ run = NoRun
    /\ env = NoEnv

\* edits = parse_edits(chat); a parse error is a ValueError
ParseEdits ==
    /\ pc = "edits"
    /\ edits_out' = parse_edit_lines(chat)
    /\ raised' = IF edits_out'.ok THEN "none" ELSE "ValueError"
    /\ pc' = IF edits_out'.ok THEN "edits_parsed" ELSE "raised"
    /\ UNCHANGED <<files, keys, workspace, memory, agent, run, env>>
    /\ UNCHANGED <<code, messages, chat, problems, edit_refinements, code0,
                   calls, handed>>

NextEdits == ParseEdits

SpecEdits == InitEdits /\ [][NextEdits]_vars

\* the fence lines of t, in order
FencePositions(t) == {i \in 1..Len(t) : t[i].kind = "fence"}

\* the fence at i opens a section: an even number of fences stand before it
Opens(t, i) ==
    /\ i \in FencePositions(t)
    /\ Cardinality({j \in FencePositions(t) : j < i}) % 2 = 0

\* line i is inside a section
Inside(t, i) ==
    /\ i \notin FencePositions(t)
    /\ Cardinality({j \in FencePositions(t) : j < i}) % 2 = 1

\* the hunk lines that start a hunk of a section
HunkStarts(t) == {i \in 1..Len(t) : t[i].kind = "hunk" /\ Inside(t, i)}

\* the line after the last line of the hunk that starts at i
HunkEnd(t, i) ==
    Min({j \in (i + 1)..(Len(t) + 1) :
            j = Len(t) + 1 \/ t[j].kind \in {"hunk", "fence"}})

LinesOfHunk(t, i) == SubSeq(t, i + 1, HunkEnd(t, i) - 1)

Unterminated(t) == Cardinality(FencePositions(t)) % 2 = 1

MissingHeader(t) ==
    \E i \in 1..Len(t) : Opens(t, i) /\ (i = Len(t) \/ t[i + 1].kind # "header")

EmptyHunk(t) ==
    \E i \in HunkStarts(t) :
        \A k \in 1..Len(LinesOfHunk(t, i)) :
            LinesOfHunk(t, i)[k].kind \notin {"removed", "added"}

\* every section is a header, then hunks that each change something
WellFormed(t) ==
    /\ ~Unterminated(t)
    /\ ~MissingHeader(t)
    /\ ~EmptyHunk(t)
    /\ \A i \in 1..Len(t) :
          Opens(t, i) => i + 2 <= Len(t) /\ t[i + 2].kind = "hunk"
    /\ \A i \in 1..Len(t) :
          (Inside(t, i) /\ ~Opens(t, i - 1)) => t[i].kind \in BodyKinds \cup {"hunk"}

\* the file named by the header of the section that line i is in
FileOf(t, i) ==
    LET open == CHOOSE j \in FencePositions(t) :
                    j < i /\ \A k \in FencePositions(t) : k < i => k <= j
    IN t[open + 1].text

KindText(lines, kinds) ==
    JoinLines(SelectSeq(lines, LAMBDA l : l.kind \in kinds))

\* the EditBlocks of the hunks that start at line i or later, in order
RECURSIVE BlocksFrom(_, _)
BlocksFrom(t, i) ==
    IF i > Len(t) THEN <<>>
    ELSE IF i \in HunkStarts(t)
    THEN <<[filename |-> FileOf(t, i),
            before |-> KindText(LinesOfHunk(t, i), {"context", "removed"}),
            after |-> KindText(LinesOfHunk(t, i), {"context", "added"})]>>
             \o BlocksFrom(t, i + 1)
    ELSE BlocksFrom(t, i + 1)

\* C14: for a response whose sections are all well formed the edit-block
\* parser returns one EditBlock per hunk, in order, with before the context
\* and removed lines of the hunk and after its context and added lines, each
\* in the order of the lines; a hunk without a removed or added line, a
\* section without its header or a fence that is not closed gives a parse
\* error and no block.
C14_OneBlockPerHunk ==
    pc \in {"edits_parsed", "raised"} =>
        /\ WellFormed(chat) =>
              /\ pc = "edits_parsed"
              /\ edits_out.ok
              /\ Len(edits_out.edits) = Cardinality(HunkStarts(chat))
              /\ edits_out.edits = BlocksFrom(chat, 1)
        /\ (Unterminated(chat) \/ MissingHeader(chat) \/ EmptyHunk(chat)) =>
              /\ pc = "raised"
              /\ raised = "ValueError"
              /\ edits_out = ParseFailed

C14_Witness ==
    /\ pc = "edits_parsed"
    /\ chat = TwoHunks
    /\ edits_out.edits =
          <<Edit("main.py", <<"A", "\n", "B", "\n", "B">>, <<"A", "\n", "A", "\n", "B">>),
            Edit("main.py", <<>>, <<"B">>)>>

----------------------------------------------------------------------------
(* execute_entrypoint called once on a code, the user typing any answer *)

\* longest answer typed at the prompt
MaxAnswer == 3

AnswerChars == {"y", "Y", "e", "E", "s", "S", "n", " "}

Answers == SeqsUpTo(AnswerChars, MaxAnswer)

\* codes with and without a run.sh
ExecCodes == {c \in AgentCodes : c["main.py"] = <<>>}

InitExec ==
    /\ code \in ExecCodes
    /\ code0 = code
    /\ pc = "execute"
    /\ raised = "none"
    /\ chat = <<>>
    /\ messages = <<>>
    /\ problems = <<>>
    /\ edit_refinements = 0
    /\ calls = 0
    /\ handed = NotHanded
    /\ ExtIdle

\* execute_entrypoint(ai, execution_env, code)
ExecuteEntrypoint ==
    /\ pc = "execute"
    /\ \E answer \in Answers :
          LET r == execute_entrypoint(code, answer) IN
          /\ env' = [answer |-> r.answer, events |-> r.events]
          /\ raised' = r.raised
          /\ pc' = IF r.raised = "none" THEN "executed" ELSE "raised"
    /\ UNCHANGED <<files, keys, workspace, memory, edits_out, agent, run>>
    /\ UNCHANGED <<code, messages, chat, problems, edit_refinements, code0,
                   calls, handed>>

NextExec == ExecuteEntrypoint

SpecExec == InitExec /\ [][NextExec]_vars

\* empty, y or yes, in any mix of upper and lower case
Affirmative(answer) ==
    /\ Len(answer) \in {0, 1, 3}
    /\ Len(answer) >= 1 => answer[1] \in {"y", "Y"}
    /\ Len(answer) = 3 => answer[2] \in {"e", "E"} /\ answer[3] \in {"s", "S"}

Happened(event) == \E i \in 1..Len(env.events) : env.events[i] = event

\* C22: execute_entrypoint uploads and runs the code only after the prompt and
\* only on an affirmative answer (empty, y or yes in any case), and then it
\* does both; on any other answer nothing is uploaded or run; a code without
\* run.sh gives FileNotFoundError with no prompt, upload or run.
C22_RunsOnlyOnYes ==
    pc \in {"executed", "raised"} =>
        /\ ENTRYPOINT_FILE \notin DOMAIN code =>
              /\ pc = "raised"
              /\ raised = "FileNotFoundError"
              /\ env.events = <<>>
        /\ ENTRYPOINT_FILE \in DOMAIN code =>
              /\ pc = "executed"
              /\ env.events # <<>> /\ env.events[1] = "prompt"
              /\ Affirmative(env.answer) => env.events = <<"prompt", "upload", "run">>
              /\ ~Affirmative(env.answer) => ~Happened("upload") /\ ~Happened("run")
        /\ code = code0

C22_Witness ==
    /\ pc = "executed"
    /\ env.answer = <<"Y", "e", "S">>
    /\ env.events = <<"prompt", "upload", "run">>

----------------------------------------------------------------------------
(* main: main.py:94-104, with collect_learnings and send_learning of       *)
(* collect.py.  A text is kept by its length.                              *)

\* 32 << 10, the largest event the analytics service takes
EventLimit == 32768

\* the characters cut from the logs beyond the overflow
TruncateSlack == 200

\* len(learnings.logs), and the length of the rest of learnings.to_json()
LogLengths == {0, 100, 300, EventLimit, EventLimit + 7000}

OtherLengths == {100, EventLimit - 100, EventLimit + 300}

\* how a call of send_learning ends: rudder_analytics.track returns, raises
\* RuntimeError, or the call fails otherwise
SendOutcomes == {"sent", "RuntimeError", "Exception"}

\* len(s[:stop]) for a string of n characters
SliceTo(n, stop) ==
    IF stop < 0 THEN (IF n + stop > 0 THEN n + stop ELSE 0)
    ELSE IF stop < n THEN stop ELSE n

\* len(str(i))
RECURSIVE StrLen(_)
StrLen(i) ==
    IF i < 0 THEN 1 + StrLen(0 - i)
    ELSE IF i < 10 THEN 1 ELSE 1 + StrLen(i \div 10)

\* len(learnings.to_json())
JsonLen(r) == r.other + r.logs

\* line 61
Overflow(r) == JsonLen(r) - EventLimit

\* lines 64-66: the length of the logs after the cut
TruncatedLogs(r) ==
    SliceTo(r.logs, 0 - Overflow(r) - TruncateSlack) + 23 + StrLen(Overflow(r))

Attempt(r, truncated, outcome) ==
    [truncated |-> truncated, logs |-> r.logs, outcome |-> outcome]

InitMain ==
    /\ run \in [consent : {"unasked"}, sends : {<<>>}, logs : LogLengths,
                other : OtherLengths, asserts : BOOLEAN]
    /\ pc = "steps"
    /\ raised = "none"
    /\ code = <<>>
    /\ code0 = <<>>
    /\ chat = <<>>
    /\ messages = <<>>
    /\ problems = <<>>
    /\ edit_refinements = 0
    /\ calls = 0
    /\ handed = NotHanded
    /\ files = <<>>
    /\ keys = <<>>
    /\ workspace = <<>>
    /\ memory = <<>>
    /\ edits_out = NoParse
    /\ agent = NoAgent
    /\ env = NoEnv

MainRest ==
    /\ UNCHANGED <<files, keys, workspace, memory, edits_out, agent, env>>
    /\ UNCHANGED <<code, messages, chat, problems, edit_refinements, code0,
                   calls, handed>>

\* lines 94-99: the steps run, or one of them raises
MainSteps ==
    /\ pc = "steps"
    /\ \E ok \in BOOLEAN :
          /\ pc' = IF ok THEN "consent" ELSE "raised"
          /\ raised' = IF ok THEN "none" ELSE "Exception"
    /\ UNCHANGED run
    /\ MainRest

\* Mutant: the learnings are collected whatever the answer was.
MainConsentIgnored ==
    /\ pc = "consent"
    /\ \E answer \in BOOLEAN :
          /\ run' = [run EXCEPT !.consent = IF answer THEN "granted" ELSE "refused"]
          /\ pc' = "collect"
    /\ UNCHANGED raised
    /\ MainRest

\* line 101: if collect_consent()
MainConsent ==
    /\ pc = "consent"
    /\ \E answer \in BOOLEAN :
          /\ run' = [run EXCEPT !.consent = IF answer THEN "granted" ELSE "refused"]
          /\ pc' = IF answer THEN "collect" ELSE "token_usage"
    /\ UNCHANGED raised
    /\ MainRest

\* collect_learnings, lines 53-58: extract_learning and the first
\* send_learning
CollectSend ==
    /\ pc = "collect"
    /\ \E outcome \in SendOutcomes :
          /\ run' = [run EXCEPT !.sends = Append(@, Attempt(run, FALSE, outcome))]
          /\ pc' = CASE outcome = "sent" -> "token_usage"
                     [] outcome = "RuntimeError" -> "truncate"
                     [] OTHER -> "raised"
          /\ raised' = IF outcome = "Exception" THEN "Exception" ELSE "none"
    /\ MainRest

\* collect_learnings, lines 61-70: the assert is there unless Python runs
\* with -O
CollectTruncate ==
    /\ pc = "truncate"
    /\ IF run.asserts /\ ~(Overflow(run) > 0)
       THEN /\ raised' = "AssertionError"
            /\ pc' = "raised"
            /\ UNCHANGED run
       ELSE /\ run' = [run EXCEPT !.logs = TruncatedLogs(run)]
            /\ pc' = "resend"
            /\ UNCHANGED raised
    /\ MainRest

\* collect_learnings, line 71: the second send_learning; what it raises
\* leaves main
CollectResend ==
    /\ pc = "resend"
    /\ \E outcome \in SendOutcomes :
          /\ run' = [run EXCEPT !.sends = Append(@, Attempt(run, TRUE, outcome))]
          /\ pc' = IF outcome = "sent" THEN "token_usage" ELSE "raised"
          /\ raised' = IF outcome = "sent" THEN "none" ELSE outcome
    /\ MainRest

\* line 104
MainTokenUsage ==
    /\ pc = "token_usage"
    /\ pc' = "done"
    /\ UNCHANGED <<run, raised>>
    /\ MainRest

NextMain ==
    \/ MainSteps
    \/ MainConsent
    \/ CollectSend
    \/ CollectTruncate
    \/ CollectResend
    \/ MainTokenUsage

SpecMain == InitMain /\ [][NextMain]_vars

\* C21: in a run of main send_learning is called only after collect_consent
\* returned true; without consent there is no call; with consent there are
\* at most two calls, and the second comes after the first raised
\* RuntimeError and after the logs were cut (logs of 200 characters or more
\* are shorter in the second call).
C21_SendOnlyWithConsent ==
    /\ run.sends # <<>> => run.consent = "granted"
    /\ run.consent # "granted" => run.sends = <<>>
    /\ Len(run.sends) <= 2
    /\ Len(run.sends) >= 1 => ~run.sends[1].truncated
    /\ Len(run.sends) = 2 =>
          /\ run.sends[1].outcome = "RuntimeError"
          /\ run.sends[2].truncated
          /\ (run.asserts /\ run.sends[1].logs >= TruncateSlack) =>
                run.sends[2].logs < run.sends[1].logs

C21_Witness ==
    /\ pc = "done"
    /\ run.consent = "granted"
    /\ Len(run.sends) = 2
    /\ run.sends[2].outcome = "sent"
    /\ run.sends[2].logs < run.sends[1].logs

====
